---------------------------- MODULE Spec2Model ----------------------------
(***************************************************************************)
(* udp-over-tcp: the socks address codec (socks.go), the framed stream    *)
(* connection defaultConn and the datagram adapter defaultPacketConn       *)
(* (uot.go).                                                               *)
(*                                                                         *)
(* A byte is a number in 0..255.  A byte slice ([]byte, the bytes of a     *)
(* stream) is kept run-length encoded: a sequence of runs <<b, n>>, each   *)
(* standing for n >= 1 copies of the byte b, no two neighbours with the    *)
(* same byte, so that equal byte strings are equal values and a record of  *)
(* 65533 bytes is a short value.  BLen, BAt, BTake, BDrop, BSub and ++ are *)
(* len(s), s[i-1], s[:k], s[k:], s[i-1:j] and append on such strings.      *)
(* A SocksAddr is the byte slice of its wire form (socks.go:21).           *)
(***************************************************************************)
EXTENDS Integers, Sequences, FiniteSets, TLC

VARIABLES
    input,   \* the bytes of the source handed to ReadSocksAddr (codec runs),
             \* the datagram in flight (datagram runs)
    parsed,  \* what ReadSocksAddr, or ReadPacket, returned for input, NotRun
             \* before the call
    sent,    \* sent[e]: every byte endpoint e has written to its net.Conn
    taken,   \* taken[e]: how many bytes e has read from its net.Conn
    rd,      \* rd[e]: the read-side call in progress on e
    wr,      \* wr[e]: the write-side call in progress on e
    rlog,    \* rlog[e]: the read-side calls e has returned from, with results
    wlog,    \* wlog[e]: the write-side calls e has started, with results
    closed,  \* closed[e]: Close has been called on e
    wr2      \* wr2[e]: the Write in progress in a second writing thread of e

vars == <<input, parsed, sent, taken, rd, wr, rlog, wlog, closed, wr2>>
connVars == <<sent, taken, rd, wr, rlog, wlog, closed, wr2>>

Min(a, b) == IF a < b THEN a ELSE b
Max(a, b) == IF a < b THEN b ELSE a

(***************************************************************************)
(* Byte strings.                                                           *)
(***************************************************************************)
Rep(b, n) == IF n = 0 THEN <<>> ELSE <<<<b, n>>>>

BCat(s, t) ==
    IF s = <<>> THEN t
    ELSE IF t = <<>> THEN s
    ELSE IF s[Len(s)][1] = t[1][1]
    THEN SubSeq(s, 1, Len(s) - 1)
            \o <<<<t[1][1], s[Len(s)][2] + t[1][2]>>>>
            \o SubSeq(t, 2, Len(t))
    ELSE s \o t
s ++ t == BCat(s, t)

RECURSIVE Bytes(_)
Bytes(q) ==
    IF q = <<>> THEN <<>>
    ELSE Bytes(SubSeq(q, 1, Len(q) - 1)) ++ Rep(q[Len(q)], 1)

RECURSIVE BLen(_)
BLen(s) == IF s = <<>> THEN 0 ELSE s[1][2] + BLen(Tail(s))

RECURSIVE BAt(_, _)
BAt(s, i) == IF i <= s[1][2] THEN s[1][1] ELSE BAt(Tail(s), i - s[1][2])

RECURSIVE BTake(_, _)
BTake(s, k) ==
    IF k = 0 \/ s = <<>> THEN <<>>
    ELSE IF k < s[1][2] THEN <<<<s[1][1], k>>>>
    ELSE <<s[1]>> \o BTake(Tail(s), k - s[1][2])

RECURSIVE BDrop(_, _)
BDrop(s, k) ==
    IF k = 0 \/ s = <<>> THEN s
    ELSE IF k < s[1][2] THEN <<<<s[1][1], s[1][2] - k>>>> \o Tail(s)
    ELSE BDrop(Tail(s), k - s[1][2])

BSub(s, i, j) == BTake(BDrop(s, i - 1), j - i + 1)

(***************************************************************************)
(* Program constants.                                                      *)
(***************************************************************************)
MaxPacketSize == 65535
maxAddrLen == 1 + 1 + 255
atypIPv4 == 1
atypDomainName == 3
atypIPv6 == 4

(***************************************************************************)
(* io.ReadFull(r, buf) on a source holding exactly the bytes src and then  *)
(* ending: want = len(buf).  An empty buf returns at once with no error;   *)
(* no byte at all is io.EOF, some but too few is io.ErrUnexpectedEOF.      *)
(***************************************************************************)
ReadFull(src, want) ==
    IF want = 0
    THEN [data |-> <<>>, err |-> "nil", rest |-> src]
    ELSE IF BLen(src) >= want
    THEN [data |-> BTake(src, want), err |-> "nil", rest |-> BDrop(src, want)]
    ELSE IF BLen(src) = 0
    THEN [data |-> <<>>, err |-> "EOF", rest |-> <<>>]
    ELSE [data |-> src, err |-> "ErrUnexpectedEOF", rest |-> <<>>]

(***************************************************************************)
(* ReadSocksAddr, one io.ReadFull at a time.  stage names the ReadFull the *)
(* code is at; buf is buf[:n], the bytes read so far.                      *)
(***************************************************************************)
AddrStart == [stage |-> "atyp", buf |-> <<>>]

\* len of the slice the ReadFull of this stage is given; AddrWantWide reads
\* the type and the byte after it in one ReadFull
AddrWantWide(ps) ==
    CASE ps.stage = "atyp" -> 2
      [] ps.stage = "dlen" -> 1
      [] ps.stage = "host" ->
            IF BAt(ps.buf, 1) = atypDomainName THEN BAt(ps.buf, 2)
            ELSE IF BAt(ps.buf, 1) = atypIPv4 THEN 4 ELSE 16
      [] ps.stage = "port" -> 2
AddrWant(ps) ==
    CASE ps.stage = "atyp" -> 1
      [] ps.stage = "dlen" -> 1
      [] ps.stage = "host" ->
            IF BAt(ps.buf, 1) = atypDomainName THEN BAt(ps.buf, 2)
            ELSE IF BAt(ps.buf, 1) = atypIPv4 THEN 4 ELSE 16
      [] ps.stage = "port" -> 2

\* the slice expression buf[lo:hi] of this stage is within cap(buf)
AddrSliceOK(ps) == BLen(ps.buf) + AddrWant(ps) <= maxAddrLen

AddrDone(kind, addr, err) ==
    [done |-> TRUE, kind |-> kind, addr |-> addr, err |-> err, ps |-> AddrStart]
AddrGo(stage, buf) ==
    [done |-> FALSE, kind |-> "-", addr |-> <<>>, err |-> "nil",
     ps |-> [stage |-> stage, buf |-> buf]]

\* the port's ReadFull: its error is dropped, buf[:n] is returned with nil
AddrAfterPort(buf, data, err) == AddrDone("ok", buf ++ data, "nil")

\* the code after the ReadFull of ps.stage returned (data, err)
AddrAfter(ps, data, err) ==
    CASE ps.stage = "atyp" ->
            IF err # "nil" THEN AddrDone("err", <<>>, err)
            ELSE IF BAt(data, 1) = atypDomainName THEN AddrGo("dlen", data)
            ELSE IF BAt(data, 1) \in {atypIPv4, atypIPv6}
            THEN AddrGo("host", data)
            ELSE AddrDone("err", <<>>, "error socks address")
      [] ps.stage = "dlen" ->
            IF err # "nil" THEN AddrDone("err", <<>>, err)
            ELSE AddrGo("host", ps.buf ++ data)
      [] ps.stage = "host" ->
            IF err # "nil" THEN AddrDone("err", <<>>, err)
            ELSE AddrGo("port", ps.buf ++ data)
      [] ps.stage = "port" -> AddrAfterPort(ps.buf, data, err)

RECURSIVE ParseFrom(_, _)
ParseFrom(ps, src) ==
    IF ~AddrSliceOK(ps)
    THEN [kind |-> "panic", addr |-> <<>>, err |-> "slice bounds out of range",
          rest |-> src]
    ELSE LET r == ReadFull(src, AddrWant(ps))
             nx == AddrAfter(ps, r.data, r.err)
         IN  IF nx.done
             THEN [kind |-> nx.kind, addr |-> nx.addr, err |-> nx.err,
                   rest |-> r.rest]
             ELSE ParseFrom(nx.ps, r.rest)

ReadSocksAddr(src) == ParseFrom(AddrStart, src)

(***************************************************************************)
(* Socks addresses (RFC 1928) and the sources the codec is run on.  A host *)
(* name of l bytes is "foo" cut or padded with "a" to l bytes.             *)
(***************************************************************************)
PortBytes(p) == Bytes(<<p \div 256, p % 256>>)
HostName(l) == BTake(Bytes(<<102, 111, 111>>), l) ++ Rep(97, Max(l, 3) - 3)
IPv4Addr(p) == Bytes(<<atypIPv4, 10, 0, 0, 1>>) ++ PortBytes(p)
IPv6Addr(p) ==
    Bytes(<<atypIPv6, 32, 1, 13, 184>>) ++ Rep(0, 11) ++ Bytes(<<1>>)
        ++ PortBytes(p)
DomainAddr(l, p) ==
    Bytes(<<atypDomainName, l>>) ++ HostName(l) ++ PortBytes(p)

Ports == {0, 53, 80, 65535}
DomainLens == {1, 3, 253, 254, 255}
ValidAddrs ==
    {IPv4Addr(p) : p \in Ports} \cup {IPv6Addr(p) : p \in Ports}
        \cup {DomainAddr(l, p) : l \in DomainLens, p \in Ports}

Trailer == Bytes(<<104, 105>>)
BadTags == (0..255) \ {atypIPv4, atypDomainName, atypIPv6}
Malformed ==
    {Bytes(<<t, 3, 102, 111, 111, 0, 80>>) : t \in BadTags}
        \cup {DomainAddr(0, 80)}
Prefixes(s) == {BTake(s, k) : k \in 0..BLen(s)}
AddrInputs == UNION {Prefixes(a ++ Trailer) : a \in ValidAddrs \cup Malformed}

(***************************************************************************)
(* Endpoints of one connection.                                            *)
(***************************************************************************)
Endpoints == {"client", "server"}
Peer(e) == IF e = "client" THEN "server" ELSE "client"
isClient(e) == e = "client"

NotRun == [kind |-> "none", addr |-> <<>>, err |-> "nil", rest |-> <<>>]
IdleRd == [op |-> "idle", stage |-> "-", buf |-> <<>>, cur |-> <<>>,
           blen |-> 0, from |-> 0]
IdleWr == [op |-> "idle", payload |-> <<>>, at |-> 0]

ConnInit ==
    /\ sent = [e \in Endpoints |-> <<>>]
    /\ taken = [e \in Endpoints |-> 0]
    /\ rd = [e \in Endpoints |-> IdleRd]
    /\ wr = [e \in Endpoints |-> IdleWr]
    /\ rlog = [e \in Endpoints |-> <<>>]
    /\ wlog = [e \in Endpoints |-> <<>>]
    /\ closed = [e \in Endpoints |-> FALSE]
    /\ wr2 = [e \in Endpoints |-> IdleWr]

(***************************************************************************)
(* defaultConn.Read, one io.ReadFull at a time: "size" is the ReadFull of  *)
(* b[:2], "payload" the ReadFull of b[:n].  A read-side call in progress   *)
(* is r = [op, stage, buf, cur, blen, from]: buf holds what the finished   *)
(* ReadFulls of the call read, cur what the running ReadFull has so far,   *)
(* blen is len(b), from the stream offset at which the call began.         *)
(***************************************************************************)
\* int(b[0])<<8 | int(b[1]) (uot.go:114)
SizeOf(b) == BAt(b, 1) * 256 + BAt(b, 2)

\* len(b) < 2 (uot.go:107); NoRoomForSizeOff lets a buffer of 1 byte pass
NoRoomForSizeOff(blen) == blen < 1
NoRoomForSize(blen) == blen < 2

\* len(b) < n (uot.go:115); ShortOfRecordOff is the test were the 2 bytes of
\* the size counted into the record
ShortOfRecordOff(blen, n) == blen + 2 < n
ShortOfRecord(blen, n) == blen < n

RdWant(r) ==
    IF r.op = "Handshake" THEN AddrWant([stage |-> r.stage, buf |-> r.buf])
    ELSE IF r.stage = "size" THEN 2 ELSE SizeOf(r.buf)

RdSliceOK(r) ==
    IF r.op = "Handshake" THEN AddrSliceOK([stage |-> r.stage, buf |-> r.buf])
    ELSE RdWant(r) <= r.blen

RdDone(kind, err, n, data) ==
    [done |-> TRUE, kind |-> kind, err |-> err, n |-> n, data |-> data,
     stage |-> "-", buf |-> <<>>]
RdGo(stage, buf) ==
    [done |-> FALSE, kind |-> "-", err |-> "nil", n |-> 0, data |-> <<>>,
     stage |-> stage, buf |-> buf]

\* the code of Read after the ReadFull of r.stage returned (data, err)
ReadAfter(r, data, err) ==
    IF r.stage = "size"
    THEN IF err # "nil" THEN RdDone("err", err, 0, <<>>)
         ELSE IF ShortOfRecord(r.blen, SizeOf(data))
         THEN RdDone("err", "ErrShortBuffer", 0, <<>>)
         ELSE RdGo("payload", data)
    ELSE RdDone(IF err = "nil" THEN "ok" ELSE "err", err, BLen(data), data)

\* the code of the responder's Handshake, which is ReadSocksAddr(c.Conn)
HandshakeAfter(r, data, err) ==
    LET a == AddrAfter([stage |-> r.stage, buf |-> r.buf], data, err)
    IN  IF a.done THEN RdDone(a.kind, a.err, 0, a.addr)
        ELSE RdGo(a.ps.stage, a.ps.buf)

RdAfter(r, data, err) ==
    IF r.op = "Handshake" THEN HandshakeAfter(r, data, err)
    ELSE ReadAfter(r, data, err)

\* The call runs on until it returns, panics, or waits for bytes in a
\* ReadFull: r is at the start of a stage in Settle, and the stage's
\* ReadFull has returned (data, err) in Continue.  A ReadFull of an empty
\* slice returns at once without touching the connection.
RECURSIVE Settle(_), Continue(_, _, _)
Settle(r) ==
    IF ~RdSliceOK(r)
    THEN [fin |-> TRUE, st |-> r,
          res |-> RdDone("panic", "slice bounds out of range", 0, <<>>)]
    ELSE IF RdWant(r) = 0 THEN Continue(r, <<>>, "nil")
    ELSE [fin |-> FALSE, st |-> r, res |-> RdGo(r.stage, r.buf)]
Continue(r, data, err) ==
    LET a == RdAfter(r, data, err)
    IN  IF a.done THEN [fin |-> TRUE, st |-> r, res |-> a]
        ELSE Settle([r EXCEPT !.stage = a.stage, !.buf = a.buf, !.cur = <<>>])

\* a panic ends the whole process: the endpoint does nothing more
Crashed(e) == \E i \in DOMAIN rlog[e] : rlog[e][i].kind = "panic"

RdEntry(r, res, to) ==
    [op |-> r.op, blen |-> r.blen, kind |-> res.kind, err |-> res.err,
     n |-> res.n, data |-> res.data, from |-> r.from, to |-> to]

\* the read side of e after its call ran to outcome o, to bytes being taken
RdApply(e, o, to) ==
    /\ taken' = [taken EXCEPT ![e] = to]
    /\ IF o.fin
       THEN /\ rd' = [rd EXCEPT ![e] = IdleRd]
            /\ rlog' = [rlog EXCEPT ![e] = Append(@, RdEntry(o.st, o.res, to))]
       ELSE /\ rd' = [rd EXCEPT ![e] = o.st]
            /\ UNCHANGED rlog

\* net.Conn.Read may return any number of the bytes that are there, from 1
\* to len(buf): every size when at most MaxFine can be had, else all or half
MaxFine == 3
Chunks(m) == IF m <= MaxFine THEN 1..m ELSE {m, (m + 1) \div 2}

(***************************************************************************)
(* The operations of defaultConn.                                          *)
(***************************************************************************)
Hint(b) == [socks |-> TRUE, b |-> b]
NilHint == [socks |-> FALSE, b |-> <<>>]

WrEntry(op, arg, err, n, addr, at) ==
    [op |-> op, arg |-> arg, err |-> err, n |-> n, addr |-> addr, at |-> at]

\* e has returned from a Handshake that found no error
Handshaked(e) ==
    IF isClient(e)
    THEN \E i \in DOMAIN wlog[e] :
            wlog[e][i].op = "Handshake" /\ wlog[e][i].err = "nil"
    ELSE \E i \in DOMAIN rlog[e] :
            rlog[e][i].op = "Handshake" /\ rlog[e][i].kind = "ok"

\* what a call that checked the state first would do: return an error and
\* leave the connection alone (the code has no such check)
Reject(e, op, readSide) ==
    IF readSide
    THEN /\ rlog' = [rlog EXCEPT ![e] = Append(@,
                 [op |-> op, blen |-> 0, kind |-> "err",
                  err |-> "ProtocolStateError", n |-> 0, data |-> <<>>,
                  from |-> taken[e], to |-> taken[e]])]
         /\ UNCHANGED <<input, parsed, closed, wr2, sent, taken, rd, wr, wlog>>
    ELSE /\ wlog' = [wlog EXCEPT ![e] = Append(@,
                 WrEntry(op, <<>>, "ProtocolStateError", 0, <<>>,
                         BLen(sent[e])))]
         /\ UNCHANGED <<input, parsed, closed, wr2, sent, taken, rd, wr, rlog>>

\* what c.Conn.Read and c.Conn.Write return once Close was called on e:
\* the connection's error, and no byte is moved
ConnErr(e) == IF closed[e] THEN "ErrClosed" ELSE "nil"

\* Close(), the method of the embedded net.Conn (uot.go:34)
Close(e) ==
    /\ ~Crashed(e)
    /\ ~closed[e]
    /\ closed' = [closed EXCEPT ![e] = TRUE]
    /\ UNCHANGED <<input, parsed, sent, taken, rd, wr, rlog, wlog, wr2>>

\* The initiator's branch of Handshake (uot.go:91-101).
\* ClientHandshakeAnyHint is the branch without the test of the hint,
\* ClientHandshakeErrDropped the branch with the error of the write dropped.
ClientHandshakeAnyHint(e, hint) ==
    /\ wr[e].op = "idle"
    /\ IF ConnErr(e) # "nil"
       THEN /\ wlog' = [wlog EXCEPT ![e] = Append(@,
                    WrEntry("Handshake", hint.b, ConnErr(e), 0, <<>>,
                            BLen(sent[e])))]
            /\ UNCHANGED sent
       ELSE /\ sent' = [sent EXCEPT ![e] = @ ++ hint.b]
            /\ wlog' = [wlog EXCEPT ![e] = Append(@,
                    WrEntry("Handshake", hint.b, "nil", 0, hint.b,
                            BLen(sent[e])))]
    /\ UNCHANGED <<input, parsed, closed, wr2, taken, rd, wr, rlog>>
ClientHandshakeErrDropped(e, hint) ==
    /\ wr[e].op = "idle"
    /\ IF ~hint.socks
       THEN /\ wlog' = [wlog EXCEPT ![e] = Append(@,
                    WrEntry("Handshake", <<>>, "not a socks address",
                            0, <<>>, BLen(sent[e])))]
            /\ UNCHANGED sent
       ELSE /\ sent' = [sent EXCEPT ![e] =
                          IF ConnErr(e) # "nil" THEN @ ELSE @ ++ hint.b]
            /\ wlog' = [wlog EXCEPT ![e] = Append(@,
                    WrEntry("Handshake", hint.b, "nil", 0, hint.b,
                            BLen(sent[e])))]
    /\ UNCHANGED <<input, parsed, closed, wr2, taken, rd, wr, rlog>>
ClientHandshake(e, hint) ==
    /\ wr[e].op = "idle"
    /\ IF ~hint.socks
       THEN /\ wlog' = [wlog EXCEPT ![e] = Append(@,
                    WrEntry("Handshake", <<>>, "not a socks address",
                            0, <<>>, BLen(sent[e])))]
            /\ UNCHANGED sent
       ELSE IF ConnErr(e) # "nil"
       THEN /\ wlog' = [wlog EXCEPT ![e] = Append(@,
                    WrEntry("Handshake", hint.b, ConnErr(e), 0, <<>>,
                            BLen(sent[e])))]
            /\ UNCHANGED sent
       ELSE /\ sent' = [sent EXCEPT ![e] = @ ++ hint.b]
            /\ wlog' = [wlog EXCEPT ![e] = Append(@,
                    WrEntry("Handshake", hint.b, "nil", 0, hint.b,
                            BLen(sent[e])))]
    /\ UNCHANGED <<input, parsed, closed, wr2, taken, rd, wr, rlog>>

\* the responder's branch of Handshake (uot.go:102), up to its first ReadFull
ServerHandshake(e) ==
    /\ rd[e].op = "idle"
    /\ LET r == [IdleRd EXCEPT !.op = "Handshake", !.stage = "atyp",
                               !.from = taken[e]]
       IN  IF ConnErr(e) # "nil"
           THEN RdApply(e, Continue(r, <<>>, ConnErr(e)), taken[e])
           ELSE RdApply(e, Settle(r), taken[e])
    /\ UNCHANGED <<input, parsed, closed, wr2, sent, wr, wlog>>

\* Handshake(addr): the initiator writes the address, the responder reads
\* one.  HandshakeCallOnce is the call were it guarded by the state.
HandshakeCallOnce(e, hint) ==
    /\ ~Crashed(e)
    /\ IF Handshaked(e)
       THEN (IF isClient(e) THEN wr[e].op = "idle" ELSE rd[e].op = "idle")
            /\ Reject(e, "Handshake", ~isClient(e))
       ELSE IF isClient(e) THEN ClientHandshake(e, hint)
            ELSE ServerHandshake(e)
HandshakeCall(e, hint) ==
    /\ ~Crashed(e)
    /\ IF isClient(e) THEN ClientHandshake(e, hint) ELSE ServerHandshake(e)

\* Read(b), up to its first ReadFull
ReadCall(e, blen) ==
    /\ ~Crashed(e)
    /\ rd[e].op = "idle"
    /\ LET r == [IdleRd EXCEPT !.op = "Read", !.stage = "size",
                               !.blen = blen, !.from = taken[e]]
       IN  IF NoRoomForSize(blen)
           THEN RdApply(e, [fin |-> TRUE, st |-> r,
                            res |-> RdDone("err", "ErrShortBuffer", 0, <<>>)],
                        taken[e])
           ELSE IF ConnErr(e) # "nil"
           THEN RdApply(e, Continue(r, <<>>, ConnErr(e)), taken[e])
           ELSE RdApply(e, Settle(r), taken[e])
    /\ UNCHANGED <<input, parsed, closed, wr2, sent, wr, wlog>>

\* one c.Conn.Read inside the running ReadFull of e's call returns k bytes
Deliver(e) ==
    /\ ~Crashed(e)
    /\ ~closed[e]
    /\ rd[e].op # "idle"
    /\ LET r == rd[e]
           avail == BLen(sent[Peer(e)]) - taken[e]
           need == RdWant(r) - BLen(r.cur)
       IN  /\ avail > 0
           /\ \E k \in Chunks(Min(need, avail)) :
                LET cur == r.cur ++ BSub(sent[Peer(e)], taken[e] + 1,
                                          taken[e] + k)
                IN  IF k = need
                    THEN RdApply(e, Continue(r, cur, "nil"), taken[e] + k)
                    ELSE RdApply(e, [fin |-> FALSE,
                                     st |-> [r EXCEPT !.cur = cur],
                                     res |-> RdGo(r.stage, r.buf)],
                                 taken[e] + k)
    /\ UNCHANGED <<input, parsed, closed, wr2, sent, wr, wlog>>

\* The running ReadFull of e's call ends with an error of c.Conn.Read: e was
\* closed under it, or the peer has closed, no write of it is still running
\* and every byte it wrote is taken.
\* ReadFull turns io.EOF after some bytes into io.ErrUnexpectedEOF.
ReadEnds(e) ==
    /\ ~Crashed(e)
    /\ rd[e].op # "idle"
    /\ \/ closed[e]
       \/ /\ closed[Peer(e)]
          /\ wr[Peer(e)].op = "idle" /\ wr2[Peer(e)].op = "idle"
          /\ BLen(sent[Peer(e)]) = taken[e]
    /\ LET r == rd[e]
           err == IF closed[e] THEN ConnErr(e)
                  ELSE IF r.cur = <<>> THEN "EOF" ELSE "ErrUnexpectedEOF"
       IN  RdApply(e, Continue(r, r.cur, err), taken[e])
    /\ UNCHANGED <<input, parsed, closed, wr2, sent, wr, wlog>>

\* n > MaxPacketSize-2 (uot.go:124); TooLargeOff forgets the 2 bytes of size
TooLargeOff(n) == n > MaxPacketSize
TooLarge(n) == n > MaxPacketSize - 2

\* []byte{byte(n >> 8), byte(n & 0x000000ff)} (uot.go:127);
\* SizePrefixSwapped has the low byte first
SizePrefixSwapped(n) == Bytes(<<n % 256, (n \div 256) % 256>>)
SizePrefix(n) == Bytes(<<(n \div 256) % 256, n % 256>>)

\* Write(b) from its first line, up to and with the write of the size
WriteBegin(e, p) ==
    /\ IF TooLarge(BLen(p))
       THEN /\ wlog' = [wlog EXCEPT ![e] = Append(@,
                    WrEntry("Write", p, "over max packet size", 0, <<>>,
                            BLen(sent[e])))]
            /\ UNCHANGED <<sent, wr>>
       ELSE IF ConnErr(e) # "nil"
       THEN /\ wlog' = [wlog EXCEPT ![e] = Append(@,
                    WrEntry("Write", p, ConnErr(e), 0, <<>>, BLen(sent[e])))]
            /\ UNCHANGED <<sent, wr>>
       ELSE /\ sent' = [sent EXCEPT ![e] = @ ++ SizePrefix(BLen(p))]
            /\ wr' = [wr EXCEPT ![e] = [op |-> "Write", payload |-> p,
                                        at |-> Len(wlog[e]) + 1]]
            /\ wlog' = [wlog EXCEPT ![e] = Append(@,
                    WrEntry("Write", p, "pending", 0, <<>>, BLen(sent[e])))]
    /\ UNCHANGED <<input, parsed, closed, wr2, taken, rd, rlog>>

\* Write(b) is called; WriteCallHandshaked is the call were it guarded by
\* the state
WriteCallHandshaked(e, p) ==
    /\ ~Crashed(e)
    /\ wr[e].op = "idle"
    /\ IF Handshaked(e) THEN WriteBegin(e, p) ELSE Reject(e, "Write", FALSE)
WriteCall(e, p) ==
    /\ ~Crashed(e)
    /\ wr[e].op = "idle"
    /\ WriteBegin(e, p)

\* Write(b): the write of the payload, and the return.  WritePayloadShared
\* is the write were its bytes kept where a running Read clears them.
WritePayloadShared(e) ==
    /\ ~Crashed(e)
    /\ wr[e].op = "Write"
    /\ sent' = [sent EXCEPT ![e] =
                   @ ++ (IF rd[e].op = "idle" THEN wr[e].payload
                         ELSE Rep(0, BLen(wr[e].payload)))]
    /\ wr' = [wr EXCEPT ![e] = IdleWr]
    /\ wlog' = [wlog EXCEPT ![e][wr[e].at].err = "nil",
                            ![e][wr[e].at].n = BLen(wr[e].payload)]
    /\ UNCHANGED <<input, parsed, closed, wr2, taken, rd, rlog>>
WritePayload(e) ==
    /\ ~Crashed(e)
    /\ wr[e].op = "Write"
    /\ wr' = [wr EXCEPT ![e] = IdleWr]
    /\ IF ConnErr(e) = "nil"
       THEN /\ sent' = [sent EXCEPT ![e] = @ ++ wr[e].payload]
            /\ wlog' = [wlog EXCEPT ![e][wr[e].at].err = "nil",
                                    ![e][wr[e].at].n = BLen(wr[e].payload)]
       ELSE \* closed under the write: some of the bytes may have gone out
            \E k \in 0..Max(BLen(wr[e].payload) - 1, 0) :
               /\ sent' = [sent EXCEPT ![e] = @ ++ BTake(wr[e].payload, k)]
               /\ wlog' = [wlog EXCEPT ![e][wr[e].at].err = ConnErr(e),
                                       ![e][wr[e].at].n = k]
    /\ UNCHANGED <<input, parsed, closed, wr2, taken, rd, rlog>>

(***************************************************************************)
(* One direction of a connection: the initiator's write side and the       *)
(* responder's read side, each making up to MaxCalls calls of any kind.    *)
(***************************************************************************)
MaxCalls == 2
MaxPayload == 3
\* a payload of n bytes: 1, 2, 3 and then n % 256 up to the length n
Payload(n) == BTake(Bytes(<<1, 2, 3>>), n) ++ Rep(n % 256, Max(n, 3) - 3)
Payloads == {Payload(n) : n \in {0, 1, MaxPayload}}
BufLens == 0..MaxPayload
HandshakeAddrs == {IPv4Addr(53), DomainAddr(254, 80)}

Init ==
    /\ input = <<>>
    /\ parsed = NotRun
    /\ ConnInit

Next ==
    \/ \E a \in HandshakeAddrs :
          Len(wlog["client"]) < MaxCalls /\ HandshakeCall("client", Hint(a))
    \/ \E p \in Payloads :
          Len(wlog["client"]) < MaxCalls /\ WriteCall("client", p)
    \/ WritePayload("client")
    \/ Len(rlog["server"]) < MaxCalls /\ HandshakeCall("server", NilHint)
    \/ \E b \in BufLens :
          Len(rlog["server"]) < MaxCalls /\ ReadCall("server", b)
    \/ Deliver("server")

Spec == Init /\ [][Next]_vars

\* a 2-byte size as the protocol defines it (uot.go:52), big-endian
Be16(n) == Bytes(<<n \div 256, n % 256>>)
FromBe16(s) == BAt(s, 1) * 256 + BAt(s, 2)

\* the bytes the i-th write-side call of e put on the connection
WrittenBy(e, i) ==
    LET w == wlog[e]
        upto == IF i < Len(w) THEN w[i + 1].at ELSE BLen(sent[e])
    IN  BSub(sent[e], w[i].at + 1, upto)

\* the bytes of the connection the i-th read-side call of e started at
StreamAt(e, i) ==
    BDrop(sent[Peer(e)], rlog[e][i].from)

\* C1: the initiator did Handshake(a), Write(p1), ..., Write(pk) and the
\* responder Handshake and Reads with buffers no smaller than the records:
\* then the responder got a, p1, ..., pk in order, whatever the chunking
C1_HandshakeThenRecordsInOrder ==
    LET w == wlog["client"]
        r == rlog["server"]
    IN  (/\ Len(w) >= 1
         /\ Len(r) <= Len(w)
         /\ w[1].op = "Handshake" /\ w[1].arg \in ValidAddrs
         /\ \A i \in 2..Len(w) :
               w[i].op = "Write" /\ BLen(w[i].arg) <= MaxPacketSize - 2
         /\ \A i \in 1..Len(r) :
               IF i = 1 THEN r[i].op = "Handshake"
               ELSE r[i].op = "Read" /\ r[i].blen >= BLen(w[i].arg))
        => \A i \in 1..Len(r) :
              /\ r[i].kind = "ok"
              /\ r[i].data = w[i].arg
              /\ i > 1 => r[i].n = BLen(w[i].arg)

\* C6 (as the code has it): Handshake runs the same at every call, the
\* first or a later one: the initiator writes the address again and returns
\* it, the responder parses one more address at the stream's position
C6_HandshakeRunsAtEveryCall ==
    /\ \A i \in DOMAIN wlog["client"] :
          LET c == wlog["client"][i]
          IN  c.op = "Handshake"
                 => /\ c.err = "nil"
                    /\ c.addr = c.arg
                    /\ WrittenBy("client", i) = c.arg
    /\ \A i \in DOMAIN rlog["server"] :
          LET c == rlog["server"][i]
              pure == ReadSocksAddr(StreamAt("server", i))
          IN  c.op = "Handshake"
                 => /\ c.kind = pure.kind
                    /\ c.err = pure.err
                    /\ c.data = pure.addr
                    /\ c.to - c.from = BLen(StreamAt("server", i)) - BLen(pure.rest)

\* C6: both endpoints have run a second Handshake: the initiator wrote the
\* address twice, the responder parsed two addresses off the stream
C6_SecondHandshakeRan ==
    /\ \E i, j \in DOMAIN wlog["client"] :
          /\ i < j
          /\ wlog["client"][i].op = "Handshake"
          /\ wlog["client"][j].op = "Handshake"
          /\ BLen(WrittenBy("client", j)) > 0
    /\ \E i, j \in DOMAIN rlog["server"] :
          /\ i < j
          /\ rlog["server"][i].op = "Handshake" /\ rlog["server"][i].kind = "ok"
          /\ rlog["server"][j].op = "Handshake" /\ rlog["server"][j].kind = "ok"
          /\ rlog["server"][j].to > rlog["server"][j].from

\* C6 (as claimed): a second Handshake on the same instance is rejected with
\* a ProtocolStateError and moves no byte
C6_SecondHandshakeRejected ==
    /\ \A i, j \in DOMAIN wlog["client"] :
          (/\ i < j
           /\ wlog["client"][i].op = "Handshake"
           /\ wlog["client"][j].op = "Handshake")
              => /\ wlog["client"][j].err = "ProtocolStateError"
                 /\ WrittenBy("client", j) = <<>>
    /\ \A i, j \in DOMAIN rlog["server"] :
          (/\ i < j
           /\ rlog["server"][i].op = "Handshake"
           /\ rlog["server"][j].op = "Handshake")
              => /\ rlog["server"][j].err = "ProtocolStateError"
                 /\ rlog["server"][j].to = rlog["server"][j].from

\* no Handshake among the calls of log before the i-th
NoHandshakeBefore(log, i) == \A j \in 1..(i - 1) : log[j].op # "Handshake"

\* C7 (as the code has it): Read and Write do not look at the handshake: a
\* Write before any Handshake puts its size and payload on the connection,
\* a Read before any Handshake takes a size and a payload from it
C7_ReadWriteRunBeforeHandshake ==
    /\ \A i \in DOMAIN wlog["client"] :
          LET c == wlog["client"][i]
          IN  (/\ c.op = "Write"
               /\ NoHandshakeBefore(wlog["client"], i)
               /\ BLen(c.arg) <= MaxPacketSize - 2)
                 => \/ c.err = "pending"
                       /\ WrittenBy("client", i) = Be16(BLen(c.arg))
                    \/ c.err = "nil" /\ c.n = BLen(c.arg)
                       /\ WrittenBy("client", i) = Be16(BLen(c.arg)) ++ c.arg
    /\ \A i \in DOMAIN rlog["server"] :
          LET c == rlog["server"][i]
          IN  (/\ c.op = "Read"
               /\ NoHandshakeBefore(rlog["server"], i)
               /\ c.blen >= 2)
                 => /\ c.err \in {"nil", "ErrShortBuffer"}
                    /\ c.err = "ErrShortBuffer" => c.to = c.from + 2
                    /\ c.err = "nil"
                          => /\ c.to = c.from + 2 + c.n
                             /\ c.data = BSub(StreamAt("server", i), 3, 2 + c.n)

\* C7: with no Handshake on either side, a Write put a record on the
\* connection and a Read returned it
C7_ReadAndWriteBeforeHandshake ==
    /\ wlog["client"] # <<>>
    /\ wlog["client"][1].op = "Write" /\ wlog["client"][1].err = "nil"
    /\ BLen(wlog["client"][1].arg) > 0
    /\ rlog["server"] # <<>>
    /\ rlog["server"][1].op = "Read" /\ rlog["server"][1].kind = "ok"
    /\ rlog["server"][1].data = wlog["client"][1].arg

\* C7 (as claimed): a Read or Write before the Handshake fails with a
\* ProtocolStateError and moves no byte
C7_RejectedBeforeHandshake ==
    /\ \A i \in DOMAIN wlog["client"] :
          (wlog["client"][i].op = "Write" /\ NoHandshakeBefore(wlog["client"], i))
             => /\ wlog["client"][i].err = "ProtocolStateError"
                /\ WrittenBy("client", i) = <<>>
    /\ \A i \in DOMAIN rlog["server"] :
          (rlog["server"][i].op = "Read" /\ NoHandshakeBefore(rlog["server"], i))
             => /\ rlog["server"][i].err = "ProtocolStateError"
                /\ rlog["server"][i].to = rlog["server"][i].from

\* C10: a Read whose buffer is smaller than the size n the stream holds at
\* its position fails with ErrShortBuffer and returns 0
C10_ShortBufferWhenRecordLonger ==
    \A i \in DOMAIN rlog["server"] :
       LET c == rlog["server"][i]
           s == StreamAt("server", i)
       IN  (c.op = "Read" /\ BLen(s) >= 2 /\ c.blen < FromBe16(s))
              => (c.kind = "err" /\ c.err = "ErrShortBuffer" /\ c.n = 0)

\* C10: a Read with room for the size but not for the record that a Write
\* put on the connection returned ErrShortBuffer
C10_ShortReadOfWrittenRecord ==
    /\ wlog["client"] # <<>>
    /\ rlog["server"] # <<>>
    /\ wlog["client"][1].op = "Write"
    /\ wlog["client"][1].err = "nil"
    /\ rlog["server"][1].op = "Read"
    /\ rlog["server"][1].blen >= 2
    /\ rlog["server"][1].blen < BLen(wlog["client"][1].arg)
    /\ rlog["server"][1].err = "ErrShortBuffer"

(***************************************************************************)
(* The sizes at the edge of what a record can hold: one Write by the       *)
(* initiator and, once it has returned, one Read by the responder.         *)
(***************************************************************************)
EdgePayloads ==
    {Payload(n) : n \in {0, 1, 255, 256, MaxPacketSize - 2, MaxPacketSize - 1,
                          MaxPacketSize}}
EdgeBufLens == {0, 1, 2, 256, MaxPacketSize - 2, MaxPacketSize}

NextEdge ==
    \/ \E p \in EdgePayloads : wlog["client"] = <<>> /\ WriteCall("client", p)
    \/ WritePayload("client")
    \/ \E b \in EdgeBufLens :
          /\ wlog["client"] # <<>> /\ wr["client"].op = "idle"
          /\ rlog["server"] = <<>>
          /\ ReadCall("server", b)
    \/ Deliver("server")

SpecEdge == Init /\ [][NextEdge]_vars

\* C5 (as the code has it): a Write of 0, 1 or 65533 bytes and a Read into a
\* buffer of max(2, size) bytes: the Read returns the bytes and their count
\* with no error.  Into a buffer of exactly 0 or 1 bytes the Read fails with
\* ErrShortBuffer, returns 0 and takes nothing from the connection
C5_RoundTripWithRoomForSize ==
    LET w == wlog["client"]
        r == rlog["server"]
    IN  (/\ Len(w) = 1 /\ Len(r) = 1
         /\ w[1].op = "Write" /\ r[1].op = "Read"
         /\ BLen(w[1].arg) \in {0, 1, MaxPacketSize - 2})
        => /\ r[1].blen = Max(2, BLen(w[1].arg))
                => /\ r[1].kind = "ok" /\ r[1].err = "nil"
                   /\ r[1].n = BLen(w[1].arg)
                   /\ r[1].data = w[1].arg
           /\ (r[1].blen = BLen(w[1].arg) /\ r[1].blen < 2)
                => /\ r[1].err = "ErrShortBuffer"
                   /\ r[1].n = 0
                   /\ r[1].to = r[1].from

\* C5: a record of 65533 bytes was written and read back whole into a
\* buffer of 65533 bytes
C5_LargestRecordReadBack ==
    /\ Len(wlog["client"]) = 1 /\ Len(rlog["server"]) = 1
    /\ BLen(wlog["client"][1].arg) = MaxPacketSize - 2
    /\ rlog["server"][1].blen = MaxPacketSize - 2
    /\ rlog["server"][1].kind = "ok"
    /\ rlog["server"][1].n = MaxPacketSize - 2

\* C5 (as claimed): a Write of 0, 1 or 65533 bytes and a Read into a buffer
\* of exactly that size: the Read returns the bytes and their count
C5_RoundTripExactBuffer ==
    LET w == wlog["client"]
        r == rlog["server"]
    IN  (/\ Len(w) = 1 /\ Len(r) = 1
         /\ w[1].op = "Write" /\ r[1].op = "Read"
         /\ BLen(w[1].arg) \in {0, 1, MaxPacketSize - 2}
         /\ r[1].blen = BLen(w[1].arg))
        => /\ r[1].kind = "ok" /\ r[1].err = "nil"
           /\ r[1].n = BLen(w[1].arg)
           /\ r[1].data = w[1].arg

\* C9: a Write of more than 65533 bytes fails with "over max packet size"
\* and puts nothing on the connection, neither size nor payload; a Write of
\* 0..65533 bytes is taken, its size and then its payload written
C9_OversizeRejectedNothingWritten ==
    \A i \in DOMAIN wlog["client"] :
       LET c == wlog["client"][i]
       IN  c.op = "Write"
              => IF BLen(c.arg) > 65533
                 THEN /\ c.err = "over max packet size"
                      /\ c.n = 0
                      /\ WrittenBy("client", i) = <<>>
                 ELSE \/ c.err = "pending"
                         /\ WrittenBy("client", i) = Be16(BLen(c.arg))
                      \/ c.err = "nil" /\ c.n = BLen(c.arg)
                         /\ WrittenBy("client", i) = Be16(BLen(c.arg)) ++ c.arg

\* C9: a Write of 65534 bytes was refused and the connection holds no byte
C9_Rejected65534 ==
    /\ Len(wlog["client"]) = 1
    /\ BLen(wlog["client"][1].arg) = 65534
    /\ wlog["client"][1].err = "over max packet size"
    /\ sent["client"] = <<>>

(***************************************************************************)
(* Both directions of a connection: on each endpoint one thread that only  *)
(* calls Read and one that only calls Write, MaxDuplexCalls calls in all.  *)
(***************************************************************************)
MaxDuplexCalls == 4
Reading(e) == IF rd[e].op = "idle" THEN 0 ELSE 1
DuplexCalls ==
    Len(wlog["client"]) + Len(wlog["server"]) + Len(rlog["client"])
        + Len(rlog["server"]) + Reading("client") + Reading("server")

NextDuplex ==
    \E e \in Endpoints :
       \/ \E p \in Payloads : DuplexCalls < MaxDuplexCalls /\ WriteCall(e, p)
       \/ WritePayload(e)
       \/ \E b \in BufLens : DuplexCalls < MaxDuplexCalls /\ ReadCall(e, b)
       \/ Deliver(e)

SpecDuplex == Init /\ [][NextDuplex]_vars

\* the bytes a sequence of Write calls is to put on the connection: for each
\* call a 2-byte size and the payload (the size alone while the call runs)
RECURSIVE WireOf(_)
WireOf(log) ==
    IF log = <<>> THEN <<>>
    ELSE LET c == log[Len(log)]
         IN  WireOf(SubSeq(log, 1, Len(log) - 1))
                ++ (IF c.err = "nil" THEN Be16(BLen(c.arg)) ++ c.arg
                    ELSE IF c.err = "pending" THEN Be16(BLen(c.arg))
                    ELSE <<>>)

\* the first i Reads of e each had a buffer with room for the size and for
\* the record the peer wrote for it
RoomFor(e, i) ==
    \A j \in 1..i :
       /\ j <= Len(wlog[Peer(e)])
       /\ rlog[e][j].blen >= Max(2, BLen(wlog[Peer(e)][j].arg))

\* C8: with a thread that only Reads and a thread that only Writes on the
\* same connection, in every interleaving of their reads and writes of
\* sizes and payloads: the bytes written are the records of the Write calls
\* in call order, and the Reads return the peer's records whole and in order
C8_ReaderAndWriterKeepSequencing ==
    \A e \in Endpoints :
       /\ sent[e] = WireOf(wlog[e])
       /\ \A i \in DOMAIN rlog[e] :
             RoomFor(e, i)
                => /\ rlog[e][i].kind = "ok"
                   /\ rlog[e][i].n = BLen(wlog[Peer(e)][i].arg)
                   /\ rlog[e][i].data = wlog[Peer(e)][i].arg

\* C8: a Read of e returned a record while e's Write stood between its two
\* writes, the peer already in the middle of reading that Write's size
C8_ReadAndWriteInterleaved ==
    \E e \in Endpoints :
       /\ wr[e].op = "Write" /\ wr[e].payload # <<>>
       /\ rlog[e] # <<>>
       /\ rlog[e][1].kind = "ok" /\ rlog[e][1].data # <<>>
       /\ rd[Peer(e)].op = "Read" /\ rd[Peer(e)].cur # <<>>

(***************************************************************************)
(* The codec on its own: ReadSocksAddr applied to a source of input bytes. *)
(***************************************************************************)
InitAddr ==
    /\ input \in AddrInputs
    /\ parsed = NotRun
    /\ ConnInit

ParseInput ==
    /\ parsed.kind = "none"
    /\ parsed' = ReadSocksAddr(input)
    /\ UNCHANGED <<input, connVars>>

NextAddr == ParseInput

SpecAddr == InitAddr /\ [][NextAddr]_vars

\* C2: every valid address, parsed from its own bytes, comes back unchanged
C2_RoundTrip ==
    (parsed.kind # "none" /\ input \in ValidAddrs)
        => (parsed.kind = "ok" /\ parsed.addr = input)

\* C3: ReadSocksAddr never panics, whatever bytes the source holds
C3_NeverPanics == parsed.kind # "panic"

\* C4: a source that ends inside a valid address (before or inside the port
\* too) gives the read error of the truncation and no address
C4_TruncationIsError ==
    (/\ parsed.kind # "none"
     /\ \E a \in ValidAddrs : input \in Prefixes(a) /\ BLen(input) < BLen(a))
        => (/\ parsed.kind = "err"
            /\ parsed.err \in {"EOF", "ErrUnexpectedEOF"}
            /\ parsed.addr = <<>>)

\* C14: an initiator Handshake with target a writes the bytes of a, no
\* more, and returns a; the responder Handshake reading those bytes returns
\* a and takes exactly those bytes
C14_HandshakeWireFormat ==
    LET w == wlog["client"]
        r == rlog["server"]
    IN  /\ \A i \in DOMAIN w :
              (w[i].op = "Handshake" /\ w[i].arg \in ValidAddrs)
                 => /\ w[i].err = "nil"
                    /\ w[i].addr = w[i].arg
                    /\ WrittenBy("client", i) = w[i].arg
        /\ (/\ w # <<>> /\ r # <<>>
            /\ w[1].op = "Handshake" /\ w[1].arg \in ValidAddrs
            /\ r[1].op = "Handshake")
               => /\ r[1].kind = "ok"
                  /\ r[1].data = w[1].arg
                  /\ r[1].from = 0
                  /\ r[1].to = BLen(w[1].arg)

\* C19: a Read that fails for a buffer below 2 bytes takes nothing from the
\* stream; one that fails for a buffer of 2 bytes or more but below the size
\* n takes the 2 bytes of the size and leaves the n bytes of payload, so
\* that the next Read starts at the payload and takes its first 2 bytes for
\* a size
C19_ShortBufferLeavesPayloadUnread ==
    \A i \in DOMAIN rlog["server"] :
       LET c == rlog["server"][i]
           s == StreamAt("server", i)
       IN  c.op = "Read"
              => /\ c.blen < 2
                    => /\ c.err = "ErrShortBuffer" /\ c.n = 0
                       /\ c.to = c.from
                 /\ (c.blen >= 2 /\ c.err = "ErrShortBuffer")
                    => /\ c.n = 0
                       /\ c.to = c.from + 2
                       /\ c.blen < FromBe16(s)
                 /\ (c.err = "ErrShortBuffer" /\ i < Len(rlog["server"]))
                    => LET d == rlog["server"][i + 1]
                       IN  /\ d.from = c.to
                           /\ (/\ c.blen >= 2
                               /\ d.op = "Read" /\ d.blen >= 2
                               /\ BLen(s) >= 4)
                              => LET m == FromBe16(BSub(s, 3, 4))
                                 IN  /\ d.blen < m
                                        => d.err = "ErrShortBuffer"
                                     /\ d.kind = "ok" => d.n = m

\* C19: a record of 3 bytes was written, a Read into 2 bytes failed after
\* the size, and the next Read took the first 2 bytes of the payload for a
\* size
C19_NextReadStartsInsidePayload ==
    /\ wlog["client"] # <<>>
    /\ wlog["client"][1].op = "Write" /\ wlog["client"][1].err = "nil"
    /\ BLen(wlog["client"][1].arg) = 3
    /\ Len(rlog["server"]) = 2
    /\ rlog["server"][1].op = "Read" /\ rlog["server"][1].blen = 2
    /\ rlog["server"][1].err = "ErrShortBuffer"
    /\ rlog["server"][1].to = 2
    /\ rlog["server"][2].op = "Read"
    /\ rlog["server"][2].from = 2 /\ rlog["server"][2].to = 4
    /\ rlog["server"][2].err = "ErrShortBuffer"

\* C12: an address ReadSocksAddr returns without error is well formed: tag
\* 1, 3 or 4, 7 to 262 bytes in all, a domain's length byte in 1..255 and
\* equal to the count of host bytes, the last 2 bytes the port of the source
C12_ReturnedAddressIsWellFormed ==
    parsed.kind = "ok"
       => LET a == parsed.addr
          IN  /\ BLen(a) >= 7 /\ BLen(a) <= 262
              /\ BAt(a, 1) \in {1, 3, 4}
              /\ BAt(a, 1) = 3
                    => /\ BAt(a, 2) \in 1..255
                       /\ BLen(a) = 1 + 1 + BAt(a, 2) + 2
              /\ BAt(a, 1) = 1 => BLen(a) = 1 + 4 + 2
              /\ BAt(a, 1) = 4 => BLen(a) = 1 + 16 + 2
              /\ a = BTake(input, BLen(a))

\* C13: a first byte other than 1, 3, 4 gives the error of an unknown
\* address type, with exactly that one byte taken from the source
C13_UnknownTypeTakesOneByte ==
    (/\ parsed.kind # "none"
     /\ input # <<>>
     /\ BAt(input, 1) \notin {1, 3, 4})
        => /\ parsed.kind = "err"
           /\ parsed.err = "error socks address"
           /\ parsed.addr = <<>>
           /\ parsed.rest = BDrop(input, 1)

\* C13: an unknown type was refused with bytes left unread behind it
C13_UnknownTypeRefused ==
    /\ parsed.kind = "err"
    /\ parsed.err = "error socks address"
    /\ BLen(input) > 1
    /\ BLen(parsed.rest) = BLen(input) - 1

(***************************************************************************)
(* One direction of a connection with its whole life: Handshake with any   *)
(* hint, Read, Write and Close on either side, the reader meeting the end  *)
(* of the stream once the writer has closed.                               *)
(***************************************************************************)
Hints == {Hint(IPv4Addr(53)), NilHint}

ClosePayloads == {Payload(MaxPayload), Payload(MaxPacketSize - 1)}
CloseBufLens == {1, MaxPayload}

NextClose ==
    \/ \E h \in Hints :
          Len(wlog["client"]) < MaxCalls /\ HandshakeCall("client", h)
    \/ \E p \in ClosePayloads :
          Len(wlog["client"]) < MaxCalls /\ WriteCall("client", p)
    \/ WritePayload("client")
    \/ \E h \in Hints :
          Len(rlog["server"]) < MaxCalls /\ HandshakeCall("server", h)
    \/ \E b \in CloseBufLens :
          Len(rlog["server"]) < MaxCalls /\ ReadCall("server", b)
    \/ Deliver("server")
    \/ ReadEnds("server")
    \/ \E e \in Endpoints : Close(e)

SpecClose == Init /\ [][NextClose]_vars

\* C11: a Read that has read the size n and meets the end of the stream
\* before n bytes of payload fails with the error of a truncation
\* (io.ErrUnexpectedEOF), not with that of a clean end (io.EOF)
C11_TruncatedRecordIsNotCleanEnd ==
    \A i \in DOMAIN rlog["server"] :
       LET c == rlog["server"][i]
           s == StreamAt("server", i)
       IN  (/\ c.op = "Read"
            /\ ~closed["server"]
            /\ closed["client"] /\ wr["client"].op = "idle"
            /\ BLen(s) >= 2
            /\ c.blen >= Max(2, FromBe16(s))
            /\ BLen(s) - 2 < FromBe16(s))
              => /\ c.kind = "err"
                 /\ c.err = "ErrUnexpectedEOF"

\* C15: an initiator Handshake whose hint is no socks address (nil too)
\* fails with "not a socks address" and writes nothing
C15_NonSocksHintRefused ==
    \A i \in DOMAIN wlog["client"] :
       LET c == wlog["client"][i]
       IN  (c.op = "Handshake" /\ c.arg = <<>>)
              => /\ c.err = "not a socks address"
                 /\ c.addr = <<>>
                 /\ WrittenBy("client", i) = <<>>

\* C15: a Handshake without socks hint was refused on a connection that
\* already carried bytes, and left them as they were
C15_RefusedAfterBytesWritten ==
    \E i \in DOMAIN wlog["client"] :
       /\ wlog["client"][i].op = "Handshake"
       /\ wlog["client"][i].err = "not a socks address"
       /\ wlog["client"][i].at > 0
       /\ BLen(sent["client"]) = wlog["client"][i].at

\* a write-side call of e begins in this step
WriteSideCallBegins(e) == Len(wlog'[e]) = Len(wlog[e]) + 1
\* a read-side call of e begins in this step
ReadSideCallBegins(e) ==
    /\ rd[e].op = "idle"
    /\ rd'[e].op # "idle" \/ Len(rlog'[e]) = Len(rlog[e]) + 1

\* the error a call finds in its arguments before it uses the connection
ArgumentError(op, arglen, blen) ==
    IF op = "Write" /\ arglen > 65533 THEN "over max packet size"
    ELSE IF op = "Handshake" /\ arglen = 0 THEN "not a socks address"
    ELSE IF op = "Read" /\ blen < 2 THEN "ErrShortBuffer"
    ELSE "nil"

\* C16 (as the code has it): once Close was called on an endpoint, every
\* Handshake, Read or Write begun on it returns an error at once and moves
\* no byte: the error its arguments earn if they earn one (short buffer,
\* oversize payload, hint that is no socks address), else the error of the
\* closed connection
C16_CallsAfterCloseFail ==
    [][\A e \in Endpoints :
          closed[e] =>
             /\ WriteSideCallBegins(e) =>
                   LET c == wlog'[e][Len(wlog'[e])]
                       ae == ArgumentError(c.op, BLen(c.arg), 0)
                   IN  /\ c.err = (IF ae # "nil" THEN ae ELSE "ErrClosed")
                       /\ c.n = 0
                       /\ sent'[e] = sent[e]
                       /\ wr'[e] = wr[e]
             /\ ReadSideCallBegins(e) =>
                   /\ rd'[e].op = "idle"
                   /\ Len(rlog'[e]) = Len(rlog[e]) + 1
                   /\ LET c == rlog'[e][Len(rlog'[e])]
                           ae == ArgumentError(c.op, 1, c.blen)
                       IN  /\ c.kind = "err"
                           /\ c.err = (IF ae # "nil" THEN ae ELSE "ErrClosed")
                           /\ c.n = 0
                           /\ c.to = c.from
                           /\ taken'[e] = taken[e]]_vars

\* C16: both endpoints were closed, and then a Handshake of the initiator
\* and a call of the responder came back with the closed connection's error
C16_CalledAfterClose ==
    /\ closed["client"] /\ closed["server"]
    /\ \E i \in DOMAIN wlog["client"] :
          /\ wlog["client"][i].op = "Handshake"
          /\ wlog["client"][i].err = "ErrClosed"
    /\ \E i \in DOMAIN rlog["server"] :
          /\ rlog["server"][i].err = "ErrClosed"
          /\ rlog["server"][i].to = rlog["server"][i].from

\* C16 (as claimed): once Close was called, every Handshake, Read or Write
\* fails with the closed connection's error and moves no byte
C16_ClosedErrorAfterClose ==
    [][\A e \in Endpoints :
          closed[e] =>
             /\ WriteSideCallBegins(e) =>
                   /\ wlog'[e][Len(wlog'[e])].err = "ErrClosed"
                   /\ sent'[e] = sent[e]
             /\ ReadSideCallBegins(e) =>
                   /\ Len(rlog'[e]) = Len(rlog[e]) + 1
                   /\ rlog'[e][Len(rlog'[e])].err = "ErrClosed"
                   /\ taken'[e] = taken[e]]_vars

(***************************************************************************)
(* defaultPacketConn: the datagram adapter.  A datagram in flight is its   *)
(* bytes, its sender and the address it was sent to; one WritePacket       *)
(* sends it and one ReadPacket at the receiving end takes it.              *)
(***************************************************************************)
NoDatagram == [data |-> <<>>, from |-> "-", to |-> "-"]

\* copy(dst, src) on byte slices: the first min(len) bytes of dst become
\* those of src, and overlapping slices are copied as if through a buffer
copy(dst, src) ==
    LET m == Min(BLen(dst), BLen(src))
    IN  BTake(src, m) ++ BDrop(dst, m)

\* c.PacketConn.ReadFrom(p): as much of the datagram as p holds
ReadFrom(d, plen) ==
    [n |-> Min(plen, BLen(d.data)), addr |-> d.from,
     p |-> BTake(d.data, plen) ++ Rep(0, Max(plen, BLen(d.data)) - BLen(d.data))]

\* ReadPacket(p) for the datagram d and len(p) = plen (uot.go:71-84):
\* rest is p after the call
ReadPacket(d, plen) ==
    LET got == ReadFrom(d, plen)
        a == ReadSocksAddr(BTake(got.p, got.n))
        length == BLen(a.addr)
    IN  IF a.kind = "panic"
        THEN [kind |-> "panic", n |-> 0, addr |-> <<>>, peer |-> "-",
              err |-> a.err, rest |-> got.p]
        ELSE IF a.kind = "err"
        THEN [kind |-> "err", n |-> 0, addr |-> <<>>, peer |-> "-",
              err |-> a.err, rest |-> got.p]
        ELSE [kind |-> "ok", n |-> got.n - length, addr |-> a.addr,
              peer |-> got.addr, err |-> "nil",
              rest |-> copy(got.p, BSub(got.p, length + 1, got.n))]

\* WritePacket(p, target, addr) by e: c.PacketConn.WriteTo(p, addr)
\* (uot.go:86-88).  WritePacketPrefixed puts the target before the payload.
WritePacketPrefixed(e, p, target, addr) ==
    [data |-> target.b ++ p, from |-> e, to |-> addr]
WritePacket(e, p, target, addr) ==
    [data |-> p, from |-> e, to |-> addr]

WritePacketCall(e, p, target, addr) ==
    /\ input = NoDatagram
    /\ wlog[e] = <<>>
    /\ input' = WritePacket(e, p, target, addr)
    /\ wlog' = [wlog EXCEPT ![e] = Append(@,
             [op |-> "WritePacket", arg |-> p, err |-> "nil", n |-> BLen(p),
              addr |-> target, at |-> 0, dest |-> addr])]
    /\ UNCHANGED <<parsed, closed, wr2, sent, taken, rd, wr, rlog>>

ReadPacketCall(e, plen) ==
    /\ input # NoDatagram
    /\ input.to = e
    /\ parsed = NotRun
    /\ parsed' = ReadPacket(input, plen)
    /\ rlog' = [rlog EXCEPT ![e] = Append(@,
             [op |-> "ReadPacket", blen |-> plen, kind |-> parsed'.kind,
              err |-> parsed'.err, n |-> parsed'.n, data |-> parsed'.addr,
              from |-> 0, to |-> 0])]
    /\ UNCHANGED <<input, closed, wr2, sent, taken, rd, wr, wlog>>

PacketAddrs ==
    {IPv4Addr(53), IPv6Addr(0), DomainAddr(3, 80), DomainAddr(254, 80)}
PacketPayloads == {<<>>, Trailer, Payload(MaxPayload)}
PacketBodies ==
    {a ++ q : a \in PacketAddrs, q \in PacketPayloads} \cup PacketPayloads
PacketTargets == {NilHint, Hint(IPv4Addr(53)), Hint(DomainAddr(3, 80))}
PacketBufLens == {0, 7, 9, 19, 300}

InitPacket ==
    /\ input = NoDatagram
    /\ parsed = NotRun
    /\ ConnInit

NextPacket ==
    \/ \E p \in PacketBodies, g \in PacketTargets, a \in Endpoints :
          WritePacketCall("client", p, g, a)
    \/ \E e \in Endpoints, b \in PacketBufLens : ReadPacketCall(e, b)

SpecPacket == InitPacket /\ [][NextPacket]_vars

\* the bytes of the datagram ReadPacket received into a buffer of plen bytes
Received(plen) == BTake(input.data, plen)

\* C17: for a received datagram that begins with a valid address of
\* `consumed` bytes, ReadPacket returns that address as target, n =
\* received - consumed, the sender, and the datagram's bytes from consumed
\* to received at the front of the buffer
C17_ReadPacketStripsAddress ==
    \A e \in Endpoints :
       (rlog[e] # <<>> /\ parsed # NotRun)
          => LET got == Received(rlog[e][1].blen)
             IN  \A a \in ValidAddrs :
                    BTake(got, BLen(a)) = a
                       => /\ parsed.kind = "ok"
                          /\ parsed.addr = a
                          /\ parsed.n = BLen(got) - BLen(a)
                          /\ parsed.peer = input.from
                          /\ BTake(parsed.rest, parsed.n)
                                = BDrop(got, BLen(a))

\* C18: WritePacket(p, target, peer) sends the bytes of p, unchanged and
\* with no address before them, as one datagram to peer, whatever target
\* is; ReadPacket at the receiving end takes the first bytes of p for the
\* address
C18_WritePacketSendsPayloadVerbatim ==
    \A e \in Endpoints :
       \A i \in DOMAIN wlog[e] :
          LET c == wlog[e][i]
          IN  c.op = "WritePacket"
                 => /\ input.data = c.arg
                    /\ input.from = e
                    /\ input.to = c.dest
                    /\ c.err = "nil" /\ c.n = BLen(c.arg)
                    /\ parsed # NotRun
                          => LET lead == ReadSocksAddr(
                                     BTake(c.arg, rlog[c.dest][1].blen))
                             IN  /\ parsed.kind = lead.kind
                                 /\ parsed.addr = lead.addr
                                 /\ parsed.err = lead.err

\* C18: a datagram written with one address as target and another at the
\* front of the payload was received, and the one of the payload returned
C18_TargetNotOnTheWire ==
    /\ wlog["client"] # <<>>
    /\ wlog["client"][1].addr = Hint(IPv4Addr(53))
    /\ parsed.kind = "ok"
    /\ parsed.addr = DomainAddr(3, 80)
    /\ parsed.n = 2

(***************************************************************************)
(* Two threads that call Write on the same connection, and a reader at the *)
(* other end.  wr holds the call of the first thread, wr2 that of the      *)
(* second; both write to the one c.Conn, in the order their steps fall.    *)
(***************************************************************************)
\* Write(b) in the second thread, up to and with the write of the size.
\* WriteCall2Locked is the call were Write to hold a lock over both writes.
WriteCall2Locked(e, p) ==
    /\ ~Crashed(e)
    /\ wr2[e].op = "idle"
    /\ wr[e].op = "idle"
    /\ IF TooLarge(BLen(p))
       THEN /\ wlog' = [wlog EXCEPT ![e] = Append(@,
                    WrEntry("Write", p, "over max packet size", 0, <<>>,
                            BLen(sent[e])))]
            /\ UNCHANGED <<sent, wr2>>
       ELSE /\ sent' = [sent EXCEPT ![e] = @ ++ SizePrefix(BLen(p))]
            /\ wr2' = [wr2 EXCEPT ![e] = [op |-> "Write", payload |-> p,
                                          at |-> Len(wlog[e]) + 1]]
            /\ wlog' = [wlog EXCEPT ![e] = Append(@,
                    WrEntry("Write", p, "pending", 0, <<>>, BLen(sent[e])))]
    /\ UNCHANGED <<input, parsed, closed, wr, taken, rd, rlog>>
WriteCall2(e, p) ==
    /\ ~Crashed(e)
    /\ wr2[e].op = "idle"
    /\ IF TooLarge(BLen(p))
       THEN /\ wlog' = [wlog EXCEPT ![e] = Append(@,
                    WrEntry("Write", p, "over max packet size", 0, <<>>,
                            BLen(sent[e])))]
            /\ UNCHANGED <<sent, wr2>>
       ELSE IF ConnErr(e) # "nil"
       THEN /\ wlog' = [wlog EXCEPT ![e] = Append(@,
                    WrEntry("Write", p, ConnErr(e), 0, <<>>, BLen(sent[e])))]
            /\ UNCHANGED <<sent, wr2>>
       ELSE /\ sent' = [sent EXCEPT ![e] = @ ++ SizePrefix(BLen(p))]
            /\ wr2' = [wr2 EXCEPT ![e] = [op |-> "Write", payload |-> p,
                                          at |-> Len(wlog[e]) + 1]]
            /\ wlog' = [wlog EXCEPT ![e] = Append(@,
                    WrEntry("Write", p, "pending", 0, <<>>, BLen(sent[e])))]
    /\ UNCHANGED <<input, parsed, closed, wr, taken, rd, rlog>>

\* Write(b) in the second thread: the write of the payload, and the return
WritePayload2(e) ==
    /\ ~Crashed(e)
    /\ wr2[e].op = "Write"
    /\ wr2' = [wr2 EXCEPT ![e] = IdleWr]
    /\ IF ConnErr(e) = "nil"
       THEN /\ sent' = [sent EXCEPT ![e] = @ ++ wr2[e].payload]
            /\ wlog' = [wlog EXCEPT ![e][wr2[e].at].err = "nil",
                                    ![e][wr2[e].at].n = BLen(wr2[e].payload)]
       ELSE \E k \in 0..Max(BLen(wr2[e].payload) - 1, 0) :
               /\ sent' = [sent EXCEPT ![e] = @ ++ BTake(wr2[e].payload, k)]
               /\ wlog' = [wlog EXCEPT ![e][wr2[e].at].err = ConnErr(e),
                                       ![e][wr2[e].at].n = k]
    /\ UNCHANGED <<input, parsed, closed, wr, taken, rd, rlog>>

NextRace ==
    \/ \E p \in Payloads :
          Len(wlog["client"]) < MaxCalls /\ WriteCall("client", p)
    \/ WritePayload("client")
    \/ \E p \in Payloads :
          Len(wlog["client"]) < MaxCalls /\ WriteCall2("client", p)
    \/ WritePayload2("client")
    \/ \E b \in BufLens :
          Len(rlog["server"]) < MaxCalls /\ ReadCall("server", b)
    \/ Deliver("server")

SpecRace == Init /\ [][NextRace]_vars

\* a payload for the Write whose beginning is tried
OneByte == Payload(1)

\* C20: Write takes no lock: while a Write of one thread stands between its
\* write of the size and its write of the payload, a Write of the other
\* thread can begin, and while both stand there the connection carries the
\* size of each where its call began, that of the later call as its last
\* bytes, and the payload of neither call
C20_WritesInterleave ==
    /\ (wr["client"].op = "Write" /\ wr2["client"].op = "idle")
          => ENABLED WriteCall2("client", OneByte)
    /\ (wr2["client"].op = "Write" /\ wr["client"].op = "idle")
          => ENABLED WriteCall("client", OneByte)
    /\ (wr["client"].op = "Write" /\ wr2["client"].op = "Write")
          => LET i == Min(wr["client"].at, wr2["client"].at)
                 j == Max(wr["client"].at, wr2["client"].at)
                 w == wlog["client"]
             IN  /\ BSub(sent["client"], w[i].at + 1, w[i].at + 2)
                       = Be16(BLen(w[i].arg))
                 /\ BDrop(sent["client"], w[j].at) = Be16(BLen(w[j].arg))
                 /\ w[i].err = "pending" /\ w[j].err = "pending"

\* C20: two Writes stood between their two writes at once, the sizes of
\* both on the connection before the payload of either, and a Read then
\* returned a record that neither Write was given
C20_ReaderGotRecordNobodySent ==
    /\ Len(wlog["client"]) = 2
    /\ wlog["client"][1].at = 0 /\ wlog["client"][2].at = 2
    /\ wlog["client"][1].err = "nil" /\ wlog["client"][2].err = "nil"
    /\ rlog["server"] # <<>>
    /\ rlog["server"][1].kind = "ok"
    /\ rlog["server"][1].data # <<>>
    /\ \A i \in 1..2 : rlog["server"][1].data # wlog["client"][i].arg
=============================================================================
